---- MODULE Spec2Model ----
(***************************************************************************)
(* Spectator-MCP: the platform adapters (configure / validate / remove)    *)
(* and the JSON read-modify-write path they share, as a state machine over *)
(* a small file system.                                                    *)
(*                                                                         *)
(* A file is a record [kind, doc, fmt].  kind is "missing", "empty" (zero  *)
(* bytes), "blank" (white space only), "malformed" (text JSON.parse        *)
(* rejects) or "json".  doc is the parsed document, fmt the layout of the  *)
(* text: JSON.parse forgets it, JSON.stringify(_, null, 2) always produces *)
(* "pretty2".  An object is a sequence of [name, value] members, in        *)
(* insertion order, as V8 keeps it.                                        *)
(***************************************************************************)
EXTENDS Integers, Sequences, FiniteSets, TLC

\* ------------------------------------------------------------------ bounds
MaxOps == 2
MaxClock == 1

\* ------------------------------------------------------------ names, keys
SpectatorName == "spectator-voice-memory"
OtherName == "other-tool"
UrlPrefix == "https://spectatorcontext.com/mcp-server/mcp/"
BearerUrl == "https://api.spectatorcontext.com/mcp-server/mcp"

ApiKeys == {"sk-alpha-0001", "sk-bravo-0002"}
NoKey == ""

Adapters == {"claude", "claudecode", "cursor", "windsurf", "windsurfLegacy", "vscode", "cline"}
MultiScope == {"cursor", "vscode"}
ScopeOptions == {"undefined", "global", "project"}
OSFamilies == {"linux", "freebsd"}

\* --------------------------------------------------------------- entries
\* One element of args: the text is lit followed by key (a template literal
\* `...${apiKey}` keeps the interpolated key apart from the fixed text).
Lit(s) == [lit |-> s, key |-> NoKey]
Interp(s, k) == [lit |-> s, key |-> k]

\* fields is the set of members the entry object has.
CanonicalEntry(apiKey) ==
    [fields |-> {"command", "args"},
     command |-> "npx",
     args |-> <<Lit("-y"), Lit("mcp-remote"), Interp(UrlPrefix, apiKey)>>,
     env |-> {}]

BearerEntry(apiKey) ==
    [fields |-> {"command", "args", "env"},
     command |-> "npx",
     args |-> <<Lit("-y"), Lit("mcp-remote"), Lit(BearerUrl), Lit("--header"),
                Lit("Authorization: Bearer ${SPECTATOR_API_KEY}")>>,
     env |-> {[name |-> "SPECTATOR_API_KEY", value |-> apiKey]}]

\* A canonical entry the user edited by hand: one more argument and an env.
HandEditedEntry(apiKey) ==
    [fields |-> {"command", "args", "env"},
     command |-> "npx",
     args |-> <<Lit("-y"), Lit("mcp-remote"), Interp(UrlPrefix, apiKey), Lit("--debug")>>,
     env |-> {[name |-> "NODE_ENV", value |-> "dev"]}]

\* An entry object without args.
ArglessEntry ==
    [fields |-> {"command"}, command |-> "npx", args |-> <<>>, env |-> {}]

OtherEntry ==
    [fields |-> {"command", "args"}, command |-> "x", args |-> <<>>, env |-> {}]

\* The API keys that occur in the text of an entry.
KeysOfEntry(e) ==
    {e.args[i].key : i \in 1..Len(e.args)} \cup {b.value : b \in e.env}

\* ------------------------------------------------------------- documents
Member(n, e) == [name |-> n, value |-> e]

Doc(top, has, servers) == [top |-> top, hasServers |-> has, servers |-> servers]
EmptyDoc == Doc({}, FALSE, <<>>)
Foo == {[name |-> "foo", value |-> "bar"]}

Names(servers) == {servers[i].name : i \in 1..Len(servers)}
HasKey(servers, n) == n \in Names(servers)
Lookup(servers, n) == (CHOOSE i \in 1..Len(servers) : servers[i].name = n)
ValueOf(servers, n) == servers[Lookup(servers, n)].value

\* SetKey as a deep merge: the members of the old value that the new one
\* does not have survive.
SetKeyMerging(servers, n, e) ==
    IF HasKey(servers, n)
    THEN LET old == servers[Lookup(servers, n)].value
         IN  [servers EXCEPT ![Lookup(servers, n)] =
                 Member(n, [e EXCEPT !.fields = @ \cup old.fields,
                                     !.env = IF "env" \in e.fields THEN @ ELSE old.env])]
    ELSE Append(servers, Member(n, e))

\* obj[n] = e: an existing member keeps its place, a new one goes last.
SetKey(servers, n, e) ==
    IF HasKey(servers, n)
    THEN [servers EXCEPT ![Lookup(servers, n)] = Member(n, e)]
    ELSE Append(servers, Member(n, e))

\* DeleteKey as dropping every member of the mapping.
DeleteKeyClearing(servers, n) == <<>>

\* delete obj[n]
DeleteKey(servers, n) == SelectSeq(servers, LAMBDA m : m.name # n)

\* The mapping an object denotes, member order forgotten.
AsMap(servers) == {servers[i] : i \in 1..Len(servers)}

\* ----------------------------------------------------------------- files
MissingFile == [kind |-> "missing", doc |-> EmptyDoc, fmt |-> "none"]
EmptyFile == [kind |-> "empty", doc |-> EmptyDoc, fmt |-> "none"]
BlankFile == [kind |-> "blank", doc |-> EmptyDoc, fmt |-> "none"]
MalformedFile == [kind |-> "malformed", doc |-> EmptyDoc, fmt |-> "none"]
JsonFile(doc, fmt) == [kind |-> "json", doc |-> doc, fmt |-> fmt]

Exists(file) == file.kind # "missing"

\* content.trim() is the empty string
TrimIsEmpty(file) == file.kind \in {"empty", "blank"}

\* JsonParse as a parser that answers {} for text it cannot read.
JsonParseLenient(file) ==
    IF file.kind = "json"
    THEN [threw |-> FALSE, doc |-> file.doc]
    ELSE [threw |-> FALSE, doc |-> EmptyDoc]

\* JSON.parse(content): a SyntaxError unless the text is JSON.
JsonParse(file) ==
    IF file.kind = "json"
    THEN [threw |-> FALSE, doc |-> file.doc]
    ELSE [threw |-> TRUE, doc |-> EmptyDoc]

\* JSON.stringify(config, null, 2)
JsonStringify(doc) == JsonFile(doc, "pretty2")

KeysOfFile(file) ==
    UNION {KeysOfEntry(file.doc.servers[i].value) : i \in 1..Len(file.doc.servers)}

\* ------------------------------------------------- PlatformDetector paths
NullPath == "null"

ClaudePaths ==
    [darwin |-> "~/Library/Application Support/Claude/claude_desktop_config.json",
     win32 |-> "%APPDATA%/Claude/claude_desktop_config.json",
     linux |-> "~/.config/Claude/claude_desktop_config.json"]
ClaudeCodePaths ==
    [darwin |-> "~/.claudecode/settings.json",
     win32 |-> "~/.claudecode/settings.json",
     linux |-> "~/.claudecode/settings.json"]
ClinePaths ==
    [darwin |-> "~/Library/Application Support/Code/User/globalStorage/saoudrizwan.claude-dev/cline_mcp_settings.json",
     win32 |-> "%APPDATA%/Code/User/globalStorage/saoudrizwan.claude-dev/cline_mcp_settings.json",
     linux |-> "~/.config/Code/User/globalStorage/saoudrizwan.claude-dev/cline_mcp_settings.json"]
CursorPaths == [global |-> "~/.cursor/mcp.json", project |-> "./.cursor/mcp.json"]
WindsurfPaths == [global |-> "~/.codeium/windsurf/mcp_config.json"]
VSCodePaths == [global |-> "~/.mcp.json", project |-> "./.vscode/mcp.json"]

Range(f) == {f[x] : x \in DOMAIN f}

Paths ==
    Range(ClaudePaths) \cup Range(ClaudeCodePaths) \cup Range(ClinePaths)
        \cup Range(CursorPaths) \cup Range(WindsurfPaths) \cup Range(VSCodePaths)

\* paths[platform][key] || null
PathOrNull(table, key) == IF key \in DOMAIN table THEN table[key] ELSE NullPath

\* GetConfigPath without the fall back to paths[platform].global.
GetConfigPathNoFallback(platform, type, os) ==
    LET t == IF type = "undefined" THEN "global" ELSE type
    IN  CASE platform = "claude" -> PathOrNull(ClaudePaths, os)
          [] platform = "cline" -> PathOrNull(ClinePaths, os)
          [] platform = "claudecode" -> PathOrNull(ClaudeCodePaths, os)
          [] platform = "cursor" -> PathOrNull(CursorPaths, t)
          [] platform = "windsurf" -> PathOrNull(WindsurfPaths, t)
          [] platform = "vscode" -> PathOrNull(VSCodePaths, t)
          [] OTHER -> NullPath

\* PlatformDetector.getConfigPath(platform, type = 'global') on OS family os
GetConfigPath(platform, type, os) ==
    LET t == IF type = "undefined" THEN "global" ELSE type
        byType(table) ==
            IF t \in DOMAIN table THEN table[t] ELSE PathOrNull(table, "global")
    IN  CASE platform = "claude" -> PathOrNull(ClaudePaths, os)
          [] platform = "cline" -> PathOrNull(ClinePaths, os)
          [] platform = "claudecode" -> PathOrNull(ClaudeCodePaths, os)
          [] platform = "cursor" -> byType(CursorPaths)
          [] platform = "windsurf" -> byType(WindsurfPaths)
          [] platform = "vscode" -> byType(VSCodePaths)
          [] OTHER -> NullPath

\* ClaudeCode.getConfigPath(options): the adapter's own, the same on every OS
ClaudeCodeConfigPath == "~/.claudecode/settings.json"

\* ------------------------------------------------------------ BasePlatform
\* The world an adapter acts on: the files, the directories that exist
\* (named by the config path they are the parent of), the backup files
\* (named by the config path and the Date.now() of the copy) and the fs
\* calls that changed something, in the order they were made.
\* copyFails says that fs.copyFileSync throws (no space, no permission);
\* raised is the error a call has thrown, '' when none.
World(f, d, b) ==
    [fs |-> f, dirs |-> d, backups |-> b, calls |-> <<>>, copyFails |-> FALSE, raised |-> ""]
CopyError == "EACCES: copyfile"
Call(c, path) == [call |-> c, path |-> path]

\* if (!fs.existsSync(dir)) fs.mkdirSync(dir, { recursive: true })
Mkdir(w, path) ==
    IF path \in w.dirs THEN w
    ELSE [w EXCEPT !.dirs = @ \cup {path}, !.calls = Append(@, Call("mkdir", path))]

\* fs.writeFileSync(configPath, JSON.stringify(config, null, 2))
WriteFile(w, path, doc) ==
    [w EXCEPT !.fs[path] = JsonStringify(doc), !.calls = Append(@, Call("write", path))]

\* BasePlatform.getMcpServerConfig(apiKey): an object with the one member
GetMcpServerConfig(apiKey) == <<Member(SpectatorName, CanonicalEntry(apiKey))>>

\* Object.assign(target, source)
RECURSIVE ObjectAssign(_, _)
ObjectAssign(target, source) ==
    IF source = <<>> THEN target
    ELSE ObjectAssign(SetKey(target, Head(source).name, Head(source).value), Tail(source))

\* ReadConfig without the existsSync test: readFileSync of a missing file
\* throws ENOENT.
ReadConfigNoExistsTest(w, path) ==
    LET p == JsonParse(w.fs[path])
    IN  IF ~Exists(w.fs[path]) \/ p.threw
        THEN [threw |-> TRUE, error |-> "Failed to read config", isNull |-> FALSE, doc |-> EmptyDoc]
        ELSE [threw |-> FALSE, error |-> "", isNull |-> FALSE, doc |-> p.doc]

\* BasePlatform.readConfig(configPath): null for a missing file, the parsed
\* document otherwise; a parse failure is rethrown as an Error.
ReadConfig(w, path) ==
    IF ~Exists(w.fs[path])
    THEN [threw |-> FALSE, error |-> "", isNull |-> TRUE, doc |-> EmptyDoc]
    ELSE LET p == JsonParse(w.fs[path])
         IN  IF p.threw
             THEN [threw |-> TRUE, error |-> "Failed to read config", isNull |-> FALSE, doc |-> EmptyDoc]
             ELSE [threw |-> FALSE, error |-> "", isNull |-> FALSE, doc |-> p.doc]

\* BasePlatform.writeConfig(configPath, config): mkdir -p of the parent,
\* then the whole text in one writeFileSync.
WriteConfig(w, path, doc) == WriteFile(Mkdir(w, path), path, doc)

\* BasePlatform.backupConfig(configPath) at Date.now() = t: nothing for a
\* missing file, otherwise copyFileSync to <path>.backup.<t> (an existing
\* copy of that name is replaced).
BackupConfig(w, t, path) ==
    IF ~Exists(w.fs[path]) THEN w
    ELSE IF w.copyFails
    THEN [w EXCEPT !.raised = CopyError, !.calls = Append(@, Call("copy failed", path))]
    ELSE [w EXCEPT
             !.backups = {b \in @ : ~(b.path = path /\ b.ts = t)}
                             \cup {[path |-> path, ts |-> t, content |-> w.fs[path]]},
             !.calls = Append(@, Call("copy", path))]

\* --------------------------------------------------------- result values
\* A JavaScript value is kept as its kind: "undefined", "true", "false",
\* "object".  Truthy is !!v.
Truthy(v) == v \in {"true", "object"}
BoolTag(b) == IF b THEN "true" ELSE "false"

\* What configure returned: type is the kind of the returned value, updated
\* and hasOtherServers what reading those properties of it gives.
CfgRet(type, updated, others) == [type |-> type, updated |-> updated, hasOtherServers |-> others]
NoCfgRet == CfgRet("undefined", "undefined", "undefined")
TrueRet == CfgRet("true", "undefined", "undefined")

ValRet(valid, error, scope) == [valid |-> valid, error |-> error, scope |-> scope]
NoValRet == ValRet(FALSE, "", "")

Out(w, threw, error, cfg, val, rem) ==
    [w |-> w, threw |-> threw, error |-> error, cfg |-> cfg, val |-> val, rem |-> rem]
Threw(w, error) == Out(w, TRUE, error, NoCfgRet, NoValRet, "undefined")
CfgOk(w, cfg) == Out(w, FALSE, "", cfg, NoValRet, "undefined")
ValOk(w, val) == Out(w, FALSE, "", NoCfgRet, val, "undefined")
RemOk(w, rem) == Out(w, FALSE, "", NoCfgRet, NoValRet, rem)

\* let config = (await this.readConfig(configPath)) || {};
\* if (!config.mcpServers) config.mcpServers = {};
EnsureServers(rd) == IF rd.isNull THEN Doc({}, TRUE, <<>>) ELSE [rd.doc EXCEPT !.hasServers = TRUE]

\* ---------------------------------------------------------------- configure
\* AssignSpectator as config.mcpServers = this.getMcpServerConfig(apiKey):
\* the mapping is replaced, not extended.
AssignSpectatorReplacing(config, apiKey) ==
    [config EXCEPT !.servers = GetMcpServerConfig(apiKey)]

\* The tail every configure shares: Object.assign(config.mcpServers,
\* this.getMcpServerConfig(apiKey)).
AssignSpectator(config, apiKey) ==
    [config EXCEPT !.servers = ObjectAssign(config.servers, GetMcpServerConfig(apiKey))]

\* CursorPlatform.configure and the newer WindsurfPlatform.configure, once
\* configPath is resolved: read, back up when the entry is there, assign,
\* write.  updated is the previous entry itself (or undefined).
ConfigureGuarded(w, t, path, apiKey) ==
    IF path = NullPath THEN Threw(w, "Could not determine configuration path")
    ELSE LET rd == ReadConfig(w, path)
             config == EnsureServers(rd)
             isAlreadyConfigured == HasKey(config.servers, SpectatorName)
             w1 == IF isAlreadyConfigured THEN BackupConfig(w, t, path) ELSE w
             config2 == AssignSpectator(config, apiKey)
         IN  IF rd.threw THEN Threw(w, rd.error)
             ELSE IF w1.raised # "" THEN Threw(w1, w1.raised)
             ELSE CfgOk(WriteConfig(w1, path, config2),
                        CfgRet("object",
                               IF isAlreadyConfigured THEN "object" ELSE "undefined",
                               BoolTag(Len(config2.servers) > 1)))

\* ConfigureBackupFirst with backupConfig catching the error of the copy
\* and returning null.
ConfigureBackupFirstUnchecked(w, t, path, apiKey) ==
    IF path = NullPath THEN Threw(w, "Could not determine configuration path")
    ELSE LET w1 == [BackupConfig(w, t, path) EXCEPT !.raised = ""]
             rd == ReadConfig(w1, path)
             config2 == AssignSpectator(EnsureServers(rd), apiKey)
         IN  IF rd.threw THEN Threw(w1, rd.error)
             ELSE CfgOk(WriteConfig(w1, path, config2), TrueRet)

\* ClaudePlatform, VSCodePlatform, ClinePlatform and the older
\* WindsurfPlatform: back up first, whatever the file holds, then read,
\* assign, write, return true.
ConfigureBackupFirst(w, t, path, apiKey) ==
    IF path = NullPath THEN Threw(w, "Could not determine configuration path")
    ELSE LET w1 == BackupConfig(w, t, path)
             rd == ReadConfig(w1, path)
             config2 == AssignSpectator(EnsureServers(rd), apiKey)
         IN  IF w1.raised # "" THEN Threw(w1, w1.raised)
             ELSE IF rd.threw THEN Threw(w1, rd.error)
             ELSE CfgOk(WriteConfig(w1, path, config2), TrueRet)

\* ClaudeCode.configure: its own I/O, no backup; a file whose text trims to
\* nothing counts as {}.
ConfigureClaudeCode(w, apiKey) ==
    LET path == ClaudeCodeConfigPath
        w1 == Mkdir(w, path)
        file == w1.fs[path]
        useEmpty == ~Exists(file) \/ TrimIsEmpty(file)
        p == JsonParse(file)
        config == IF useEmpty THEN Doc({}, TRUE, <<>>) ELSE [p.doc EXCEPT !.hasServers = TRUE]
        hasOtherServers == Names(config.servers) \ {SpectatorName} # {}
        isUpdated == HasKey(config.servers, SpectatorName)
        config2 == [config EXCEPT !.servers = SetKey(config.servers, SpectatorName, CanonicalEntry(apiKey))]
    IN  IF ~useEmpty /\ p.threw THEN Threw(w1, "SyntaxError")
        ELSE CfgOk(WriteFile(w1, path, config2),
                   CfgRet("object", BoolTag(isUpdated), BoolTag(hasOtherServers)))

\* const scope = options.scope || <the adapter's default>
ScopeOrDefault(scope, default) == IF scope = "undefined" THEN default ELSE scope

\* ConfigureOf with the scope option ignored: cursor always works on its
\* global file, vscode on its project file.
ConfigureOfIgnoringScope(a, w, t, os, apiKey, scope) ==
    CASE a = "cursor" -> ConfigureGuarded(w, t, GetConfigPath("cursor", "global", os), apiKey)
      [] a = "vscode" -> ConfigureBackupFirst(w, t, GetConfigPath("vscode", "project", os), apiKey)
      [] a = "windsurf" ->
            ConfigureGuarded(w, t, GetConfigPath("windsurf", "undefined", os), apiKey)
      [] a = "claudecode" -> ConfigureClaudeCode(w, apiKey)
      [] a = "windsurfLegacy" ->
            ConfigureBackupFirst(w, t, GetConfigPath("windsurf", "undefined", os), apiKey)
      [] OTHER -> ConfigureBackupFirst(w, t, GetConfigPath(a, "undefined", os), apiKey)

\* platform.configure(apiKey, {scope}) of adapter a
ConfigureOf(a, w, t, os, apiKey, scope) ==
    CASE a = "cursor" ->
            ConfigureGuarded(w, t, GetConfigPath("cursor", ScopeOrDefault(scope, "global"), os), apiKey)
      [] a = "windsurf" ->
            ConfigureGuarded(w, t, GetConfigPath("windsurf", "undefined", os), apiKey)
      [] a = "windsurfLegacy" ->
            ConfigureBackupFirst(w, t, GetConfigPath("windsurf", "undefined", os), apiKey)
      [] a = "claude" ->
            ConfigureBackupFirst(w, t, GetConfigPath("claude", "undefined", os), apiKey)
      [] a = "cline" ->
            ConfigureBackupFirst(w, t, GetConfigPath("cline", "undefined", os), apiKey)
      [] a = "vscode" ->
            ConfigureBackupFirst(w, t, GetConfigPath("vscode", ScopeOrDefault(scope, "project"), os), apiKey)
      [] a = "claudecode" -> ConfigureClaudeCode(w, apiKey)

\* The file configure of adapter a works on.
ConfigPathOf(a, os, scope) ==
    CASE a = "cursor" -> GetConfigPath("cursor", ScopeOrDefault(scope, "global"), os)
      [] a = "vscode" -> GetConfigPath("vscode", ScopeOrDefault(scope, "project"), os)
      [] a \in {"windsurf", "windsurfLegacy"} -> GetConfigPath("windsurf", "undefined", os)
      [] a = "claudecode" -> ClaudeCodeConfigPath
      [] OTHER -> GetConfigPath(a, "undefined", os)

\* ----------------------------------------------------------------- validate
\* One scope of CursorPlatform.validate / VSCodePlatform.validate: the
\* results it pushes (none when the file is missing or parses without the
\* entry).
ValidateScope(w, path, scope) ==
    IF path = NullPath \/ ~Exists(w.fs[path]) THEN <<>>
    ELSE LET rd == ReadConfig(w, path)
         IN  IF rd.threw THEN <<ValRet(FALSE, rd.error, scope)>>
             ELSE IF rd.doc.hasServers /\ HasKey(rd.doc.servers, SpectatorName)
                  THEN <<ValRet(TRUE, "", scope)>>
                  ELSE <<>>

\* ValidateMulti as returning the first result pushed, valid or not.
ValidateMultiFirstPushed(w, platform, os) ==
    LET results == ValidateScope(w, GetConfigPath(platform, "global", os), "global")
                       \o ValidateScope(w, GetConfigPath(platform, "project", os), "project")
    IN  IF results = <<>> THEN ValOk(w, ValRet(FALSE, "No configuration found", ""))
        ELSE ValOk(w, results[1])

\* ValidateMulti as preferring the scope checked last.
ValidateMultiLastChecked(w, platform, os) ==
    LET results == ValidateScope(w, GetConfigPath(platform, "global", os), "global")
                       \o ValidateScope(w, GetConfigPath(platform, "project", os), "project")
        valid == SelectSeq(results, LAMBDA r : r.valid)
    IN  IF results = <<>> THEN ValOk(w, ValRet(FALSE, "No configuration found", ""))
        ELSE IF valid # <<>> THEN ValOk(w, valid[Len(valid)])
        ELSE ValOk(w, results[Len(results)])

\* CursorPlatform.validate / VSCodePlatform.validate
ValidateMulti(w, platform, os) ==
    LET results == ValidateScope(w, GetConfigPath(platform, "global", os), "global")
                       \o ValidateScope(w, GetConfigPath(platform, "project", os), "project")
        valid == SelectSeq(results, LAMBDA r : r.valid)
    IN  IF results = <<>> THEN ValOk(w, ValRet(FALSE, "No configuration found", ""))
        ELSE IF valid # <<>> THEN ValOk(w, valid[1])
        ELSE ValOk(w, results[1])

\* ValidateSingle without the try/catch around readConfig.
ValidateSingleUncaught(w, path) ==
    IF path = NullPath \/ ~Exists(w.fs[path])
    THEN ValOk(w, ValRet(FALSE, "Configuration file not found", ""))
    ELSE LET rd == ReadConfig(w, path)
         IN  IF rd.threw THEN Threw(w, rd.error)
             ELSE IF ~rd.doc.hasServers \/ ~HasKey(rd.doc.servers, SpectatorName)
                  THEN ValOk(w, ValRet(FALSE, "Spectator MCP server not configured", ""))
                  ELSE ValOk(w, ValRet(TRUE, "", ""))

\* ClaudePlatform / WindsurfPlatform / ClinePlatform .validate
ValidateSingle(w, path) ==
    IF path = NullPath \/ ~Exists(w.fs[path])
    THEN ValOk(w, ValRet(FALSE, "Configuration file not found", ""))
    ELSE LET rd == ReadConfig(w, path)
         IN  IF rd.threw THEN ValOk(w, ValRet(FALSE, rd.error, ""))
             ELSE IF ~rd.doc.hasServers \/ ~HasKey(rd.doc.servers, SpectatorName)
                  THEN ValOk(w, ValRet(FALSE, "Spectator MCP server not configured", ""))
                  ELSE ValOk(w, ValRet(TRUE, "", ""))

\* ValidateClaudeCode as also asking for the key in the URL of the args.
ValidateClaudeCodeUrlOnly(w) ==
    LET file == w.fs[ClaudeCodeConfigPath]
        p == JsonParse(file)
        has == p.doc.hasServers /\ HasKey(p.doc.servers, SpectatorName)
        spectatorConfig == ValueOf(p.doc.servers, SpectatorName)
    IN  IF ~Exists(file) THEN ValOk(w, ValRet(FALSE, "Configuration file not found", ""))
        ELSE IF p.threw THEN ValOk(w, ValRet(FALSE, "Configuration error: SyntaxError", ""))
        ELSE IF ~has THEN ValOk(w, ValRet(FALSE, "Spectator MCP not configured", ""))
        ELSE IF    ~("command" \in spectatorConfig.fields /\ spectatorConfig.command # "")
                \/ "args" \notin spectatorConfig.fields
                \/ ~\E i \in 1..Len(spectatorConfig.args) :
                        spectatorConfig.args[i].lit = UrlPrefix
             THEN ValOk(w, ValRet(FALSE, "Invalid Spectator MCP configuration", ""))
        ELSE ValOk(w, ValRet(TRUE, "", ""))

\* ClaudeCode.validate
ValidateClaudeCode(w) ==
    LET file == w.fs[ClaudeCodeConfigPath]
        p == JsonParse(file)
        has == p.doc.hasServers /\ HasKey(p.doc.servers, SpectatorName)
        spectatorConfig == ValueOf(p.doc.servers, SpectatorName)
    IN  IF ~Exists(file) THEN ValOk(w, ValRet(FALSE, "Configuration file not found", ""))
        ELSE IF p.threw THEN ValOk(w, ValRet(FALSE, "Configuration error: SyntaxError", ""))
        ELSE IF ~has THEN ValOk(w, ValRet(FALSE, "Spectator MCP not configured", ""))
        ELSE IF    ~("command" \in spectatorConfig.fields /\ spectatorConfig.command # "")
                \/ "args" \notin spectatorConfig.fields
             THEN ValOk(w, ValRet(FALSE, "Invalid Spectator MCP configuration", ""))
        ELSE ValOk(w, ValRet(TRUE, "", ""))

\* platform.validate() of adapter a
ValidateOf(a, w, os) ==
    CASE a \in MultiScope -> ValidateMulti(w, a, os)
      [] a = "claudecode" -> ValidateClaudeCode(w)
      [] a \in {"windsurf", "windsurfLegacy"} -> ValidateSingle(w, GetConfigPath("windsurf", "undefined", os))
      [] OTHER -> ValidateSingle(w, GetConfigPath(a, "undefined", os))

\* ------------------------------------------------------------------- remove
\* One turn of the loop of CursorPlatform.remove / VSCodePlatform.remove.
\* acc is [w, removed, threw, error]; a throw ends the loop.
RemoveScope(acc, path) ==
    IF acc.threw \/ path = NullPath \/ ~Exists(acc.w.fs[path]) THEN acc
    ELSE LET rd == ReadConfig(acc.w, path)
         IN  IF rd.threw THEN [acc EXCEPT !.threw = TRUE, !.error = rd.error]
             ELSE IF rd.doc.hasServers /\ HasKey(rd.doc.servers, SpectatorName)
                  THEN [acc EXCEPT
                           !.w = WriteConfig(acc.w, path,
                                     [rd.doc EXCEPT !.servers = DeleteKey(rd.doc.servers, SpectatorName)]),
                           !.removed = TRUE]
                  ELSE acc

\* CursorPlatform.remove / VSCodePlatform.remove
RemoveMulti(w, platform, os) ==
    LET a0 == [w |-> w, removed |-> FALSE, threw |-> FALSE, error |-> ""]
        a1 == RemoveScope(a0, GetConfigPath(platform, "global", os))
        a2 == RemoveScope(a1, GetConfigPath(platform, "project", os))
    IN  IF a2.threw THEN Threw(a2.w, a2.error) ELSE RemOk(a2.w, BoolTag(a2.removed))

\* RemoveSingle as rewriting the file whether or not the entry was there.
RemoveSingleAlwaysWriting(w, path) ==
    IF path = NullPath THEN Threw(w, "Could not determine configuration path")
    ELSE LET rd == ReadConfig(w, path)
             config == EnsureServers(rd)
         IN  IF rd.threw THEN Threw(w, rd.error)
             ELSE RemOk(WriteConfig(w, path,
                            [config EXCEPT !.servers = DeleteKey(config.servers, SpectatorName)]),
                        BoolTag(HasKey(config.servers, SpectatorName)))

\* ClaudePlatform / WindsurfPlatform / ClinePlatform .remove
RemoveSingle(w, path) ==
    IF path = NullPath THEN Threw(w, "Could not determine configuration path")
    ELSE LET rd == ReadConfig(w, path)
         IN  IF rd.threw THEN Threw(w, rd.error)
             ELSE IF rd.isNull \/ ~rd.doc.hasServers THEN RemOk(w, "false")
             ELSE IF HasKey(rd.doc.servers, SpectatorName)
                  THEN RemOk(WriteConfig(w, path,
                                 [rd.doc EXCEPT !.servers = DeleteKey(rd.doc.servers, SpectatorName)]),
                             "true")
                  ELSE RemOk(w, "false")

\* RemoveClaudeCode as unlinking the file once mcpServers is emptied.
RemoveClaudeCodeUnlinking(w) ==
    LET path == ClaudeCodeConfigPath
        file == w.fs[path]
        p == JsonParse(file)
        rest == DeleteKey(p.doc.servers, SpectatorName)
    IN  IF ~Exists(file) THEN RemOk(w, "undefined")
        ELSE IF p.threw THEN Threw(w, "Failed to remove configuration")
        ELSE IF p.doc.hasServers /\ HasKey(p.doc.servers, SpectatorName)
             THEN IF rest = <<>>
                  THEN RemOk([w EXCEPT !.fs[path] = MissingFile,
                                       !.calls = Append(@, Call("unlink", path))],
                             "undefined")
                  ELSE RemOk(WriteFile(w, path, [p.doc EXCEPT !.servers = rest]), "undefined")
             ELSE RemOk(w, "undefined")

\* ClaudeCode.remove: returns nothing; drops mcpServers when it empties it.
RemoveClaudeCode(w) ==
    LET path == ClaudeCodeConfigPath
        file == w.fs[path]
        p == JsonParse(file)
        rest == DeleteKey(p.doc.servers, SpectatorName)
        config2 == IF rest = <<>> THEN Doc(p.doc.top, FALSE, <<>>) ELSE [p.doc EXCEPT !.servers = rest]
    IN  IF ~Exists(file) THEN RemOk(w, "undefined")
        ELSE IF p.threw THEN Threw(w, "Failed to remove configuration")
        ELSE IF p.doc.hasServers /\ HasKey(p.doc.servers, SpectatorName)
             THEN RemOk(WriteFile(w, path, config2), "undefined")
             ELSE RemOk(w, "undefined")

\* RemoveOf with the multi-scope platforms removing from the global file
\* only.
RemoveOfGlobalOnly(a, w, os) ==
    CASE a \in MultiScope -> RemoveSingle(w, GetConfigPath(a, "global", os))
      [] a = "claudecode" -> RemoveClaudeCode(w)
      [] a \in {"windsurf", "windsurfLegacy"} -> RemoveSingle(w, GetConfigPath("windsurf", "undefined", os))
      [] OTHER -> RemoveSingle(w, GetConfigPath(a, "undefined", os))

\* platform.remove() of adapter a
RemoveOf(a, w, os) ==
    CASE a \in MultiScope -> RemoveMulti(w, a, os)
      [] a = "claudecode" -> RemoveClaudeCode(w)
      [] a \in {"windsurf", "windsurfLegacy"} -> RemoveSingle(w, GetConfigPath("windsurf", "undefined", os))
      [] OTHER -> RemoveSingle(w, GetConfigPath(a, "undefined", os))

\* --------------------------------------------------------------- dispatcher
\* The three copies of the command line program.
CLIs == {"bin", "part_002", "part_001"}

\* The two copies of the platforms index: the older one has no claudecode.
Indexes == {"index", "part_000"}
PlatformIndex(index) ==
    IF index = "index"
    THEN {"claude", "claudecode", "cursor", "windsurf", "vscode", "cline"}
    ELSE {"claude", "cursor", "windsurf", "vscode", "cline"}

MIN_API_KEY_LENGTH == 10
KNOWN_COMMANDS == {"setup", "validate", "config", "remove", "help"}

\* A string of the command line or of a prompt answer:
\* an optional '-', white space, a body that neither starts nor ends with
\* white space (and is not empty after a '-'), white space.
Str(dash, lead, body, trail) == [dash |-> dash, lead |-> lead, body |-> body, trail |-> trail]
RECURSIVE Spaces(_)
Spaces(n) == IF n = 0 THEN "" ELSE " " \o Spaces(n - 1)
Text(s) == (IF s.dash THEN "-" ELSE "") \o Spaces(s.lead) \o s.body \o Spaces(s.trail)
Length(s) == Len(Text(s))
StartsWithDash(s) == s.dash
Trim(s) == IF s.dash THEN Str(TRUE, s.lead, s.body, 0) ELSE Str(FALSE, 0, s.body, 0)
\* !s : undefined and '' alike
Falsy(s) == Text(s) = ""
Undefined == Str(FALSE, 0, "", 0)
Flag(name) == Str(TRUE, 0, name, 0)
Word(text) == Str(FALSE, 0, text, 0)

\* The value of -p, kept as the pieces split(',') gives, each already
\* trimmed and in lower case; <<>> is an option that was not given.
List(ids) == [dash |-> FALSE, lead |-> 0, body |-> ids, trail |-> 0]
NoList == <<>>

\* program.opts(): the argument after the flag, when the flag is there.
HasOption(args, name) ==
    \E i \in 1..(Len(args) - 1) : args[i].dash /\ args[i].body = name
OptionValue(args, name) ==
    args[(CHOOSE i \in 1..(Len(args) - 1) : args[i].dash /\ args[i].body = name) + 1]
ApiKeyOption(args) == IF HasOption(args, "k") THEN OptionValue(args, "k") ELSE Undefined
PlatformsOption(args) == IF HasOption(args, "p") THEN OptionValue(args, "p").body ELSE NoList

\* args.length === 1 && !args[0].startsWith('-') && !KNOWN_COMMANDS.includes(args[0])
IsBareKey(args) ==
    Len(args) = 1 /\ ~StartsWithDash(args[1]) /\ Text(args[1]) \notin KNOWN_COMMANDS

\* Whether the script calls runSetup: always for a bare key; bin and
\* part_001 otherwise when there are no arguments or -k / -p was given,
\* part_002 when commander reaches the default action.
CallsRunSetup(cli, args) ==
    \/ IsBareKey(args)
    \/ Len(args) = 0
    \/ cli = "part_002" /\ StartsWithDash(args[1])
    \/ cli # "part_002" /\ (~Falsy(ApiKeyOption(args)) \/ PlatformsOption(args) # NoList)

\* commander runs the action of the remove command.
IsRemoveCommand(args) ==
    Len(args) >= 1 /\ ~StartsWithDash(args[1]) /\ Text(args[1]) = "remove"

\* The options runSetup is called with.
SetupOptions(cli, args) ==
    IF IsBareKey(args)
    THEN [apiKey |-> args[1], platforms |-> NoList, scope |-> "global"]
    ELSE [apiKey |-> ApiKeyOption(args), platforms |-> PlatformsOption(args), scope |-> "global"]

\* ApiValidator.validateApiKey(apiKey) when the server answers `remote`:
\* never throws; valid on a 200 only.
ValidateApiKey(apiKey, remote) ==
    IF Falsy(apiKey) \/ Falsy(Trim(apiKey)) THEN [valid |-> FALSE, error |-> "API key is required"]
    ELSE IF remote = "200" THEN [valid |-> TRUE, error |-> ""]
    ELSE IF remote = "401" THEN [valid |-> FALSE, error |-> "Invalid API key"]
    ELSE [valid |-> FALSE, error |-> "Cannot connect to Spectator API"]

\* PlatformDetector.getInstalledPlatforms(): the fixed list, filtered.
DetectOrder == <<"claude", "claudecode", "cursor", "windsurf", "vscode", "cline">>
GetInstalledPlatforms(found) == SelectSeq(DetectOrder, LAMBDA name : name \in found)

Elems(seq) == {seq[i] : i \in 1..Len(seq)}

\* platformsToConfig of runSetup
PlatformsToConfig(installed, platforms) ==
    IF platforms # NoList /\ platforms # <<"all">> THEN platforms ELSE installed
InvalidPlatforms(installed, platforms) ==
    SelectSeq(PlatformsToConfig(installed, platforms), LAMBDA name : name \notin Elems(installed))

\* The part of platform.configure that runs before its first await gives
\* control back: nothing written for cursor and the newer windsurf (they
\* stop at readConfig), the backup copy for the adapters that back up
\* first, everything for claudecode, which awaits nothing.
ConfigureStartOf(a, w, t, os, apiKey, scope) ==
    CASE a \in {"cursor", "windsurf"} -> w
      [] a = "claudecode" -> ConfigureClaudeCode(w, apiKey).w
      [] OTHER -> IF ConfigPathOf(a, os, scope) = NullPath THEN w
                  ELSE BackupConfig(w, t, ConfigPathOf(a, os, scope))

\* -------------------------------------------------------------------- state
VARIABLES
    plat,       \* the adapter the commands are run on
    os,         \* os.platform()
    fs,         \* path -> file
    dirs,       \* the config paths whose parent directory exists
    backups,    \* the <path>.backup.<ts> files: [path, ts, content]
    now,        \* Date.now()
    ops,        \* operations run so far
    last,       \* the last operation: its arguments and what it returned
    before,     \* the world that operation started from
    prior,      \* the operation before it, and the file it started from
    run         \* one run of the command line program

vars == <<plat, os, fs, dirs, backups, now, ops, last, before, prior, run>>

\* The documents a config file starts with, written by the user, by the
\* application or by an earlier run of the tool.
InitKey == "sk-alpha-0001"
InitDocs ==
    {Doc({}, FALSE, <<>>),
     Doc(Foo, FALSE, <<>>),
     Doc({}, TRUE, <<>>),
     Doc(Foo, TRUE, <<Member(OtherName, OtherEntry)>>),
     Doc({}, TRUE, <<Member(SpectatorName, CanonicalEntry(InitKey))>>),
     Doc(Foo, TRUE, <<Member(OtherName, OtherEntry), Member(SpectatorName, HandEditedEntry(InitKey))>>),
     Doc({}, TRUE, <<Member(SpectatorName, BearerEntry(InitKey)), Member(OtherName, OtherEntry)>>),
     Doc({}, TRUE, <<Member(SpectatorName, ArglessEntry)>>)}

InitFiles ==
    {MissingFile, EmptyFile, BlankFile, MalformedFile} \cup {JsonFile(d, "custom") : d \in InitDocs}

\* The config files of adapter a.
PathsOf(a, o) == {ConfigPathOf(a, o, s) : s \in ScopeOptions} \ {NullPath}

NoOp ==
    [op |-> "none", key |-> NoKey, scope |-> "undefined", path |-> NullPath,
     threw |-> FALSE, error |-> "", calls |-> <<>>,
     cfg |-> NoCfgRet, val |-> NoValRet, rem |-> "undefined"]

Summary(l, w) ==
    [op |-> l.op, key |-> l.key, path |-> l.path, threw |-> l.threw,
     file |-> IF l.path = NullPath THEN MissingFile ELSE w.fs[l.path]]

\* The program counter values of a run and process.exit not yet called.
NotExited == -1
NoPending == [w |-> World(<<>>, {}, {}), threw |-> FALSE, error |-> ""]

\* A process that has just started: nothing of the script has run.
Started(cli, index, args, remote, found) ==
    [cli |-> cli, index |-> index, args |-> args, remote |-> remote, found |-> found,
     pc |-> "main", main |-> "calling", setup |-> FALSE, bare |-> FALSE,
     confirm |-> "not asked",
     apiKey |-> Undefined, platforms |-> NoList, scope |-> "global",
     validation |-> "none", installed |-> <<>>, targets |-> <<>>, i |-> 0,
     invoked |-> <<>>, results |-> <<>>, pending |-> NoPending,
     exit |-> NotExited, site |-> ""]

\* No process: the adapter's commands are run one by one.
NoRun == Started("bin", "index", <<>>, "200", {})

Init ==
    /\ plat \in Adapters
    /\ os \in OSFamilies
    /\ \E c \in [PathsOf(plat, os) -> InitFiles] :
          /\ os \notin DOMAIN ClaudePaths => \A p \in DOMAIN c : c[p] = MissingFile
          /\ fs = [p \in Paths |-> IF p \in DOMAIN c THEN c[p] ELSE MissingFile]
    /\ \E extra \in {{}, PathsOf(plat, os)} :
          dirs = {p \in Paths : Exists(fs[p])} \cup extra
    /\ backups = {}
    /\ now = 0
    /\ ops = 0
    /\ last = NoOp
    /\ before = World(fs, dirs, backups)
    /\ prior = Summary(NoOp, before)
    /\ run = NoRun

\* What an operation leaves behind.
Record(op, key, scope, path, out) ==
    /\ fs' = out.w.fs
    /\ dirs' = out.w.dirs
    /\ backups' = out.w.backups
    /\ last' = [op |-> op, key |-> key, scope |-> scope, path |-> path,
                threw |-> out.threw, error |-> out.error, calls |-> out.w.calls,
                cfg |-> out.cfg, val |-> out.val, rem |-> out.rem]
    /\ before' = World(fs, dirs, backups)
    /\ prior' = Summary(last, before)
    /\ ops' = ops + 1
    /\ UNCHANGED <<plat, os, now, run>>

\* await platform.configure(apiKey, { scope })
Configure(apiKey, scope) ==
    /\ ops < MaxOps
    /\ Record("configure", apiKey, scope, ConfigPathOf(plat, os, scope),
              ConfigureOf(plat, World(fs, dirs, backups), now, os, apiKey, scope))

\* await platform.configure(apiKey, { scope }) while fs.copyFileSync fails.
\* A copy that fails stops configure before the key is used, so one key
\* is followed.
ConfigureCopyFailing(apiKey, scope) ==
    /\ ops < MaxOps
    /\ Record("configure", apiKey, scope, ConfigPathOf(plat, os, scope),
              ConfigureOf(plat, [World(fs, dirs, backups) EXCEPT !.copyFails = TRUE],
                          now, os, apiKey, scope))

\* await platform.validate()
Validate ==
    /\ ops < MaxOps
    /\ Record("validate", NoKey, "undefined", NullPath,
              ValidateOf(plat, World(fs, dirs, backups), os))

\* await platform.remove()
Remove ==
    /\ ops < MaxOps
    /\ Record("remove", NoKey, "undefined", NullPath,
              RemoveOf(plat, World(fs, dirs, backups), os))

\* A millisecond passes.  Before the first backup exists one moment is as
\* good as another, so the clock is followed from then on.
Tick ==
    /\ now < MaxClock
    /\ backups # {}
    /\ now' = now + 1
    /\ UNCHANGED <<plat, os, fs, dirs, backups, ops, last, before, prior, run>>

Next ==
    \/ \E k \in ApiKeys, s \in ScopeOptions : Configure(k, s)
    \/ \E s \in ScopeOptions : ConfigureCopyFailing(InitKey, s)
    \/ Validate
    \/ Remove
    \/ Tick

Spec == Init /\ [][Next]_vars

\* ------------------------------------------------------- the path resolver
\* The platform ids, scope values and os.platform() values getConfigPath is
\* asked with: the six ids of the table, an id that is not in it and the
\* empty id; no scope, the two scopes and a scope no platform has.
PlatformIds == {"claude", "claudecode", "cursor", "windsurf", "vscode", "cline", "zed", ""}
ScopeValues == {"undefined", "global", "project", "workspace"}
PathOSes == {"darwin", "win32", "linux", "freebsd"}

PathInit ==
    /\ plat \in PlatformIds
    /\ os \in PathOSes
    /\ fs = [p \in Paths |-> MissingFile]
    /\ dirs = {}
    /\ backups = {}
    /\ now = 0
    /\ ops = 0
    /\ last = NoOp
    /\ before = World(fs, dirs, backups)
    /\ prior = Summary(NoOp, before)
    /\ run = NoRun

\* detector.getConfigPath(plat, type)
ResolvePath(type) ==
    /\ last' = [NoOp EXCEPT !.op = "getConfigPath", !.scope = type,
                            !.path = GetConfigPath(plat, type, os)]
    /\ UNCHANGED <<plat, os, fs, dirs, backups, now, ops, before, prior, run>>

PathNext == \E type \in ScopeValues : ResolvePath(type)

PathSpec == PathInit /\ [][PathNext]_vars

\* ------------------------------------------------------ one run of the CLI
\* The platforms a run may find installed, and what their config files
\* hold when it starts.
SetupFound == {"claude", "claudecode", "cursor"}
SetupFiles ==
    {MissingFile, MalformedFile,
     JsonFile(Doc(Foo, TRUE, <<Member(OtherName, OtherEntry),
                               Member(SpectatorName, HandEditedEntry(InitKey))>>), "custom")}
SetupPath(name) == ConfigPathOf(name, "linux", "global")

\* What is typed as the key: nothing, nine characters between two blanks,
\* thirteen characters.
ShortKey == Str(FALSE, 1, "sk-bravo9", 1)
GoodKey == Word("sk-alpha-0001")
PromptAnswers == {ShortKey, GoodKey}
SetupLists == {List(<<"all">>), List(<<"cursor", "claude">>)}
ArgLists ==
    {<<>>, <<Word("")>>, <<ShortKey>>, <<GoodKey>>, <<Word("validate")>>, <<Word("remove")>>,
     <<Flag("k"), ShortKey>>, <<Flag("k"), GoodKey>>}
        \cup {<<Flag("p"), l>> : l \in SetupLists}
        \cup {<<Flag("k"), GoodKey, Flag("p"), l>> : l \in SetupLists}
Remotes == {"200", "401", "timeout"}

\* A run is followed on linux; plat, ops, last and prior belong to the
\* single commands of Spec and stay as they start.
SetupInit ==
    /\ plat = "claude"
    /\ os = "linux"
    /\ \E found \in SUBSET SetupFound, cli \in CLIs, index \in Indexes,
          args \in ArgLists, remote \in Remotes :
          \* commander rejects an unknown word before part_001 looks for a
          \* bare key, and only part_001 asks the server
          /\ cli = "part_001" => ~IsBareKey(args)
          /\ cli # "part_001" => remote = "200"
          /\ run = Started(cli, index, args, remote, found)
          /\ \E c \in [found -> SetupFiles] :
                fs = [p \in Paths |->
                        IF \E name \in found : p = SetupPath(name)
                        THEN c[CHOOSE name \in found : p = SetupPath(name)]
                        ELSE MissingFile]
    /\ dirs = {p \in Paths : Exists(fs[p])}
    /\ backups = {}
    /\ now = 0
    /\ ops = 0
    /\ last = NoOp
    /\ before = World(fs, dirs, backups)
    /\ prior = Summary(NoOp, before)

Adapter == <<plat, os, now, ops, last, before, prior>>
Files == <<fs, dirs, backups>>

\* process.exit(code) at the call named by site
Exit(code, site) == run' = [run EXCEPT !.pc = "exited", !.exit = code, !.site = site]

\* The script up to its call of runSetup, if it makes one.
Dispatch ==
    /\ run.pc = "main"
    /\ IF CallsRunSetup(run.cli, run.args)
       THEN run' = [run EXCEPT !.pc = "key", !.setup = TRUE, !.bare = IsBareKey(run.args),
                               !.apiKey = SetupOptions(run.cli, run.args).apiKey,
                               !.platforms = SetupOptions(run.cli, run.args).platforms,
                               !.scope = SetupOptions(run.cli, run.args).scope]
       ELSE IF IsRemoveCommand(run.args)
       THEN run' = [run EXCEPT !.pc = "confirm", !.main = "returned",
                               !.installed = GetInstalledPlatforms(run.found),
                               !.targets = PlatformsToConfig(GetInstalledPlatforms(run.found),
                                                             PlatformsOption(run.args))]
       ELSE run' = [run EXCEPT !.pc = "done", !.main = "returned"]
    /\ UNCHANGED <<Adapter, Files>>

\* ConfirmAnswered as going on to the loop whatever the answer.
ConfirmAnsweredUnheeded(confirm) ==
    /\ run.pc = "confirm"
    /\ run' = [run EXCEPT !.pc = "removing", !.i = 1,
                           !.confirm = IF confirm THEN "yes" ELSE "no"]
    /\ UNCHANGED <<Adapter, Files>>

\* The remove command's prompt resolves: if (!confirm) return.
ConfirmAnswered(confirm) ==
    /\ run.pc = "confirm"
    /\ IF confirm
       THEN run' = [run EXCEPT !.pc = "removing", !.i = 1, !.confirm = "yes"]
       ELSE run' = [run EXCEPT !.pc = "done", !.confirm = "no"]
    /\ UNCHANGED <<Adapter, Files>>

\* One turn of the remove command's loop: past the end, an id without a
\* class (continue), or await platform.remove() in its try/catch.
RemoveStep ==
    /\ run.pc = "removing"
    /\ IF run.i > Len(run.targets)
       THEN /\ run' = [run EXCEPT !.pc = "done"]
            /\ UNCHANGED Files
       ELSE IF run.targets[run.i] \notin PlatformIndex(run.index)
       THEN /\ run' = [run EXCEPT !.i = @ + 1]
            /\ UNCHANGED Files
       ELSE LET out == RemoveOf(run.targets[run.i], World(fs, dirs, backups), os)
            IN  /\ run' = [run EXCEPT !.i = @ + 1, !.invoked = Append(@, run.targets[run.i])]
                /\ fs' = out.w.fs
                /\ dirs' = out.w.dirs
                /\ backups' = out.w.backups
    /\ UNCHANGED Adapter

\* let apiKey = options.apiKey; if (!apiKey) await inquirer.prompt(...)
GetApiKey ==
    /\ run.pc = "key"
    /\ run' = [run EXCEPT !.pc = IF Falsy(run.apiKey) THEN "prompt" ELSE "check"]
    /\ UNCHANGED <<Adapter, Files>>

\* The prompt resolves: its validate lets through any answer that does not
\* trim to ''.
PromptAnswered(answer) ==
    /\ run.pc = "prompt"
    /\ run.main = "returned"
    /\ ~Falsy(Trim(answer))
    /\ run' = [run EXCEPT !.pc = "check", !.apiKey = answer]
    /\ UNCHANGED <<Adapter, Files>>

\* What each copy does with the key before detection: part_002 tests its
\* length, part_001 asks the server, bin does nothing.
CheckKey ==
    /\ run.pc = "check"
    /\ CASE run.cli = "part_002" ->
               IF Falsy(run.apiKey) \/ Length(Trim(run.apiKey)) < MIN_API_KEY_LENGTH
               THEN Exit(1, "key")
               ELSE run' = [run EXCEPT !.pc = "detect"]
         [] run.cli = "part_001" -> run' = [run EXCEPT !.pc = "remote"]
         [] OTHER -> run' = [run EXCEPT !.pc = "detect"]
    /\ UNCHANGED <<Adapter, Files>>

\* part_001: validation = await apiValidator.validateApiKey(apiKey);
\* if (!validation.valid) process.exit(1)
RemoteAnswered ==
    /\ run.pc = "remote"
    /\ run.main = "returned"
    /\ IF ValidateApiKey(run.apiKey, run.remote).valid
       THEN run' = [run EXCEPT !.pc = "detect", !.validation = "valid"]
       ELSE run' = [run EXCEPT !.pc = "exited", !.exit = 1, !.site = "remote",
                               !.validation = "invalid"]
    /\ UNCHANGED <<Adapter, Files>>

\* installedPlatforms = detector.getInstalledPlatforms(); exit when empty
Detect ==
    /\ run.pc = "detect"
    /\ IF GetInstalledPlatforms(run.found) = <<>>
       THEN Exit(1, "none detected")
       ELSE run' = [run EXCEPT !.pc = "targets", !.installed = GetInstalledPlatforms(run.found)]
    /\ UNCHANGED <<Adapter, Files>>

\* ResolveTargets as dropping the ids that are not installed.
ResolveTargetsDroppingInvalid ==
    /\ run.pc = "targets"
    /\ run' = [run EXCEPT !.pc = "loop", !.i = 1,
                           !.targets = SelectSeq(PlatformsToConfig(run.installed, run.platforms),
                                                 LAMBDA name : name \in Elems(run.installed))]
    /\ UNCHANGED <<Adapter, Files>>

\* platformsToConfig: the installed platforms, or the list given, which
\* ends the run when it names a platform that is not installed.
ResolveTargets ==
    /\ run.pc = "targets"
    /\ IF InvalidPlatforms(run.installed, run.platforms) # <<>>
       THEN Exit(1, "not installed")
       ELSE run' = [run EXCEPT !.pc = "loop", !.i = 1,
                               !.targets = PlatformsToConfig(run.installed, run.platforms)]
    /\ UNCHANGED <<Adapter, Files>>

\* LoopStep as calling platform.configure without await: the loop goes on
\* to the next platform while the promise is pending.
LoopStepNotAwaiting ==
    /\ run.pc = "loop"
    /\ IF run.i > Len(run.targets)
       THEN /\ run' = [run EXCEPT !.pc = "summary"]
            /\ UNCHANGED Files
       ELSE IF run.targets[run.i] \notin PlatformIndex(run.index)
       THEN /\ run' = [run EXCEPT !.i = @ + 1]
            /\ UNCHANGED Files
       ELSE LET name == run.targets[run.i]
                w1 == ConfigureStartOf(name, World(fs, dirs, backups), now, os,
                                       Text(run.apiKey), run.scope)
            IN  /\ run' = [run EXCEPT !.i = @ + 1, !.invoked = Append(@, name)]
                /\ fs' = w1.fs
                /\ dirs' = w1.dirs
                /\ backups' = w1.backups
    /\ UNCHANGED Adapter

\* The head of the for loop: past the end, an id without a class in the
\* index (warning, continue), or the call of platform.configure, which
\* runs up to its first await.
LoopStep ==
    /\ run.pc = "loop"
    /\ IF run.i > Len(run.targets)
       THEN /\ run' = [run EXCEPT !.pc = "summary"]
            /\ UNCHANGED Files
       ELSE IF run.targets[run.i] \notin PlatformIndex(run.index)
       THEN /\ run' = [run EXCEPT !.i = @ + 1]
            /\ UNCHANGED Files
       ELSE LET name == run.targets[run.i]
                w == World(fs, dirs, backups)
                out == ConfigureOf(name, w, now, os, Text(run.apiKey), run.scope)
                w1 == ConfigureStartOf(name, w, now, os, Text(run.apiKey), run.scope)
            IN  /\ run' = [run EXCEPT !.pc = "awaiting", !.invoked = Append(@, name),
                                      !.pending = [w |-> out.w, threw |-> out.threw,
                                                   error |-> out.error]]
                /\ fs' = w1.fs
                /\ dirs' = w1.dirs
                /\ backups' = w1.backups
    /\ UNCHANGED Adapter

\* ConfigureSettled without the try/catch of the loop: the rejection
\* reaches the catch around runSetup, which exits.
ConfigureSettledUncaught ==
    /\ run.pc = "awaiting"
    /\ run.main = "returned"
    /\ IF run.pending.threw
       THEN run' = [run EXCEPT !.pc = "exited", !.exit = 1, !.site = "setup failed",
                               !.pending = NoPending]
       ELSE run' = [run EXCEPT !.pc = "loop", !.i = @ + 1, !.pending = NoPending,
                               !.results = Append(@, [platform |-> run.targets[run.i],
                                                      success |-> TRUE])]
    /\ fs' = run.pending.w.fs
    /\ dirs' = run.pending.w.dirs
    /\ backups' = run.pending.w.backups
    /\ UNCHANGED Adapter

\* The promise of platform.configure settles: the rest of configure has
\* run, and the try or the catch pushes the platform's record.
ConfigureSettled ==
    /\ run.pc = "awaiting"
    /\ run.main = "returned"
    /\ run' = [run EXCEPT !.pc = "loop", !.i = @ + 1, !.pending = NoPending,
                           !.results = Append(@, [platform |-> run.targets[run.i],
                                                  success |-> ~run.pending.threw])]
    /\ fs' = run.pending.w.fs
    /\ dirs' = run.pending.w.dirs
    /\ backups' = run.pending.w.backups
    /\ UNCHANGED Adapter

\* After the loop: bin and part_002 exit with 1 when no record is a
\* success, part_001 only reports.
Summarise ==
    /\ run.pc = "summary"
    /\ IF (\E r \in Elems(run.results) : r.success) \/ run.cli = "part_001"
       THEN run' = [run EXCEPT !.pc = "done"]
       ELSE Exit(1, "none configured")
    /\ UNCHANGED <<Adapter, Files>>

\* runSetup has given control back at an await (or returned): the script
\* goes on.  bin calls process.exit(0) after runSetup for a bare key; the
\* others have nothing left to run.
MainContinues ==
    /\ run.main = "calling"
    /\ run.pc \in {"prompt", "remote", "awaiting", "done"}
    /\ IF run.cli = "bin" /\ run.bare
       THEN Exit(0, "after runSetup")
       ELSE run' = [run EXCEPT !.main = "returned"]
    /\ UNCHANGED <<Adapter, Files>>

\* Nothing is pending any more: the process ends with status 0 (part_002
\* says so itself in the then of a bare key's runSetup).
ProcessEnds ==
    /\ run.pc = "done"
    /\ run.main = "returned"
    /\ Exit(0, "end")
    /\ UNCHANGED <<Adapter, Files>>

SetupNext ==
    \/ Dispatch
    \/ GetApiKey
    \/ \E answer \in PromptAnswers : PromptAnswered(answer)
    \/ CheckKey
    \/ RemoteAnswered
    \/ Detect
    \/ ResolveTargets
    \/ LoopStep
    \/ ConfigureSettled
    \/ Summarise
    \/ MainContinues
    \/ \E confirm \in BOOLEAN : ConfirmAnswered(confirm)
    \/ RemoveStep
    \/ ProcessEnds

SetupSpec == SetupInit /\ [][SetupNext]_vars

\* ------------------------------------------------------------- properties
HasEntry(file) ==
    file.kind = "json" /\ file.doc.hasServers /\ HasKey(file.doc.servers, SpectatorName)

\* The last operation was a configure that resolved a config path.
Configured == last.op = "configure" /\ last.path # NullPath
ConfiguredOk == Configured /\ ~last.threw

Made(c) == \E i \in 1..Len(last.calls) : last.calls[i].call = c

TypeOK ==
    /\ plat \in Adapters
    /\ os \in OSFamilies
    /\ DOMAIN fs = Paths
    /\ dirs \subseteq Paths
    /\ \A p \in Paths : Exists(fs[p]) => p \in dirs
    /\ now \in 0..MaxClock
    /\ ops \in 0..MaxOps
    /\ last.op \in {"none", "configure", "validate", "remove"}

\* C1: a successful configure on an existing valid document leaves every
\* mcpServers entry other than spectator-voice-memory and every other
\* top-level field as it was in the written file, and the file has the
\* spectator-voice-memory entry.
C1_ConfigureKeepsSiblings ==
    (ConfiguredOk /\ before.fs[last.path].kind = "json") =>
        LET D == before.fs[last.path].doc
            W == fs[last.path]
        IN  /\ W.kind = "json"
            /\ W.doc.top = D.top
            /\ DeleteKey(W.doc.servers, SpectatorName) = DeleteKey(D.servers, SpectatorName)
            /\ HasKey(W.doc.servers, SpectatorName)

\* A configure that replaced a hand-edited entry next to other-tool, in a
\* document with the unrelated field foo.
C1_Witness ==
    /\ ConfiguredOk
    /\ before.fs[last.path].kind = "json"
    /\ before.fs[last.path].doc.top = Foo
    /\ HasKey(before.fs[last.path].doc.servers, OtherName)
    /\ HasEntry(before.fs[last.path])
    /\ ValueOf(before.fs[last.path].doc.servers, SpectatorName) # ValueOf(fs[last.path].doc.servers, SpectatorName)

\* C2: configure makes a backup copy if and only if the config file
\* existed and held the spectator-voice-memory entry before the write.
C2_BackupIffEntryPresent ==
    Configured => (Made("copy") <=> HasEntry(before.fs[last.path]))

\* C3: configure with k1 and then with another key k2 on the same file: a
\* backup holds the file as it was before the second write, with k1 in it,
\* the copy is made before the write, the live entry carries k2 and k1 is
\* nowhere in the live file.
C3_SecondConfigureBacksUpFirst ==
    (/\ ConfiguredOk
     /\ prior.op = "configure" /\ ~prior.threw /\ prior.path = last.path
     /\ prior.key # last.key) =>
        /\ \E b \in backups :
              /\ b.path = last.path
              /\ b.content = before.fs[last.path]
              /\ prior.key \in KeysOfFile(b.content)
        /\ \E i, j \in 1..Len(last.calls) :
              i < j /\ last.calls[i].call = "copy" /\ last.calls[j].call = "write"
        /\ HasEntry(fs[last.path])
        /\ last.key \in KeysOfEntry(ValueOf(fs[last.path].doc.servers, SpectatorName))
        /\ prior.key \notin KeysOfFile(fs[last.path])

ConfiguredThenRemoved ==
    /\ last.op = "remove" /\ ~last.threw
    /\ prior.op = "configure" /\ ~prior.threw
    /\ prior.file.kind = "json"
    /\ ~HasKey(prior.file.doc.servers, SpectatorName)

C6_FirstTimeConfigureCreates ==
    (Configured /\ ~Exists(before.fs[last.path])) =>
        /\ ~last.threw
        /\ last.path \in dirs
        /\ HasEntry(fs[last.path])
        /\ \E i \in 1..Len(ValueOf(fs[last.path].doc.servers, SpectatorName).args) :
              ValueOf(fs[last.path].doc.servers, SpectatorName).args[i].key = last.key
        /\ ~Truthy(last.cfg.updated)

\* A configure that had to create the parent directory.
C6_Witness ==
    /\ ConfiguredOk
    /\ ~Exists(before.fs[last.path])
    /\ last.path \notin before.dirs
    /\ Made("mkdir")

\* C7: configure on a file that is empty or holds only white space returns,
\* and writes the document that holds only the spectator-voice-memory entry.
C7_EmptyFileIsEmptyDocument ==
    (Configured /\ TrimIsEmpty(before.fs[last.path])) =>
        /\ ~last.threw
        /\ fs[last.path] =
              JsonStringify(Doc({}, TRUE, <<Member(SpectatorName, CanonicalEntry(last.key))>>))

\* C8: configure on a file that is not valid JSON throws an error, and the
\* file is left as it was.
C8_MalformedFileUntouched ==
    (Configured /\ before.fs[last.path].kind = "malformed") =>
        /\ last.threw
        /\ last.error # ""
        /\ fs[last.path] = before.fs[last.path]
        /\ ~Made("write")

\* A configure that met a malformed file.
C8_Witness ==
    /\ Configured
    /\ before.fs[last.path].kind = "malformed"
    /\ last.threw

\* C9: validate returns, whatever the files hold, and with no config file
\* it answers valid = false with an error message.
C9_ValidateNeverThrows ==
    last.op = "validate" =>
        /\ ~last.threw
        /\ (\A p \in PathsOf(plat, os) : ~Exists(fs[p])) =>
              (~last.val.valid /\ last.val.error # "")

\* A validate with no config file, and one over a file that does not parse.
C9_Witness ==
    /\ last.op = "validate"
    /\ ~last.val.valid
    /\ last.val.error # ""
    /\ \/ \A p \in PathsOf(plat, os) : ~Exists(fs[p])
       \/ \E p \in PathsOf(plat, os) : fs[p].kind = "malformed"

\* C10: for cursor and vscode, validate answers valid = true exactly when
\* the global or the project config file holds the spectator-voice-memory
\* entry.
C10_ValidEitherScope ==
    (last.op = "validate" /\ plat \in MultiScope) =>
        (last.val.valid <=>
            \E s \in {"global", "project"} : HasEntry(fs[GetConfigPath(plat, s, os)]))

\* A validate that answered valid for the project file next to a global
\* file that does not parse.
C10_Witness ==
    /\ last.op = "validate"
    /\ plat \in MultiScope
    /\ fs[GetConfigPath(plat, "global", os)].kind = "malformed"
    /\ HasEntry(fs[GetConfigPath(plat, "project", os)])
    /\ last.val.valid

\* The last operation was a remove.
Removed == last.op = "remove"

\* The entry was in the file at path before the last operation and is not
\* in it now.
TakenOut(path) == HasEntry(before.fs[path]) /\ ~HasEntry(fs[path])

\* C11: remove() of cursor and vscode goes on to the project scope whatever
\* the global scope did, so the entry leaves every scope file that held it,
\* and when it left at least one file remove() returns true.
C11_RemoveTriesBothScopes ==
    (Removed /\ plat \in MultiScope) =>
        /\ \A path \in PathsOf(plat, os) :
              (before.fs[path].kind = "json" /\ HasEntry(before.fs[path])) => ~HasEntry(fs[path])
        /\ (\E path \in PathsOf(plat, os) : TakenOut(path)) =>
              (~last.threw /\ last.rem = "true")

\* The adapter has a config file, and none of its config files holds the
\* entry: each is missing, or a document without mcpServers or without the
\* entry.
NoPriorConfiguration ==
    /\ PathsOf(plat, os) # {}
    /\ \A path \in PathsOf(plat, os) :
          \/ ~Exists(before.fs[path])
          \/ before.fs[path].kind = "json" /\ ~HasEntry(before.fs[path])

C13_RemoveReturnsWhetherDeleted ==
    (Removed /\ ~last.threw) =>
        IF \E path \in PathsOf(plat, os) : TakenOut(path)
        THEN last.rem = "true"
        ELSE ~Truthy(last.rem)

\* What remove() may turn document D into: D itself, or D without the
\* entry, mcpServers kept or dropped once it is empty.
EntryTakenOut(D, E) ==
    /\ E.top = D.top
    /\ E.servers = DeleteKey(D.servers, SpectatorName)
    /\ \/ E.hasServers = D.hasServers
       \/ ~E.hasServers /\ E.servers = <<>>

\* C14: after remove() every file that existed still exists; a file that
\* held a document holds that document, or that document with the entry
\* taken out (and mcpServers dropped if it is then empty), siblings in their
\* order and the other top-level fields kept; any other file is untouched.
C14_RemoveOnlyRewrites ==
    Removed =>
        \A path \in Paths :
            /\ Exists(before.fs[path]) => Exists(fs[path])
            /\ before.fs[path].kind # "json" => fs[path] = before.fs[path]
            /\ before.fs[path].kind = "json" =>
                  \/ fs[path] = before.fs[path]
                  \/ /\ fs[path].kind = "json"
                     /\ HasEntry(before.fs[path])
                     /\ EntryTakenOut(before.fs[path].doc, fs[path].doc)

\* remove() took the only entry out of a document with other top-level
\* fields, or an entry with a sibling: the file is still there.
C14_Witness ==
    /\ Removed
    /\ ~last.threw
    /\ \E path \in PathsOf(plat, os) :
          /\ TakenOut(path)
          /\ Exists(fs[path])
          /\ \/ HasKey(fs[path].doc.servers, OtherName)
             \/ before.fs[path].doc.servers = <<Member(SpectatorName, CanonicalEntry(InitKey))>>

\* ------------------------------------------------- properties of a run
Exited == run.exit # NotExited
\* runSetup has fixed platformsToConfig.
Resolved == run.i >= 1
ListGiven == run.platforms # NoList /\ run.platforms # <<"all">>
Known(names) == SelectSeq(names, LAMBDA name : name \in PlatformIndex(run.index))
FilesUntouched == fs = before.fs /\ dirs = before.dirs /\ backups = before.backups

\* The records the platforms `names` should end with when configure is
\* called for each in turn, starting from world w, whatever the earlier
\* ones did.
RECURSIVE RecordsFrom(_, _, _)
RecordsFrom(names, w, apiKey) ==
    IF names = <<>> THEN <<>>
    ELSE LET out == ConfigureOf(Head(names), w, 0, "linux", apiKey, "global")
         IN  <<[platform |-> Head(names), success |-> ~out.threw]>>
                 \o RecordsFrom(Tail(names), World(out.w.fs, out.w.dirs, out.w.backups), apiKey)
ExpectedRecords(names) == RecordsFrom(Known(names), before, Text(run.apiKey))

C16_ExitStatus ==
    (run.setup /\ Exited) =>
        /\ (GetInstalledPlatforms(run.found) = <<>> /\ run.site \notin {"key", "remote"}) =>
              run.exit = 1
        /\ run.site \in {"none configured", "end"} =>
              (run.exit = 0 <=> \E r \in Elems(run.results) : r.success)

\* C17: a process started with a bare key of at least the minimum length
\* runs setup with that argument as the key and the global scope, and when
\* it exits every detected platform that has an adapter has its record.
C17_BareKeyRunsSetupToTheEnd ==
    (Exited /\ IsBareKey(run.args) /\ Length(Trim(run.args[1])) >= MIN_API_KEY_LENGTH) =>
        /\ run.setup
        /\ run.apiKey = run.args[1]
        /\ run.scope = "global"
        /\ run.results = ExpectedRecords(GetInstalledPlatforms(run.found))

\* runSetup has its key (from the options or from the prompt, which takes
\* no blank answer) and it trims to fewer than the minimum of characters.
KeyTooShort ==
    /\ run.setup
    /\ run.pc # "key"
    /\ ~Falsy(run.apiKey)
    /\ Length(Trim(run.apiKey)) < MIN_API_KEY_LENGTH

\* C18: with a key that is too short no configure is called, no file,
\* directory or backup is created or changed, and the process does not
\* exit with 0.
C18_ShortKeyRejected ==
    KeyTooShort => (run.invoked = <<>> /\ FilesUntouched /\ run.exit # 0)

\* C19: without -p, or with -p all, the targeted platforms are the detected
\* ones, and with a list they are the listed ones; a list that names a
\* platform that is not detected targets nothing: no configure is called,
\* no file is touched and the process does not exit with 0.
C19_TargetsResolved ==
    run.setup =>
        /\ (Resolved /\ ~ListGiven) => run.targets = GetInstalledPlatforms(run.found)
        /\ (Resolved /\ ListGiven) => run.targets = run.platforms
        /\ (ListGiven /\ \E name \in Elems(run.platforms) : name \notin run.found) =>
              (~Resolved /\ run.invoked = <<>> /\ FilesUntouched /\ run.exit # 0)

\* The run has ended on a list that names cursor, which is installed, and
\* claude, which is not.
C19_Witness ==
    /\ Exited
    /\ run.exit = 1
    /\ run.site = "not installed"
    /\ run.platforms = <<"cursor", "claude">>
    /\ "cursor" \in run.found
    /\ "claude" \notin run.found
    /\ FilesUntouched

\* C20: a run whose key the server did not accept (any answer but 200),
\* on a machine with detected platforms and no bad id in its list, has
\* called configure for each targeted platform with an adapter by the time
\* it exits.
C20_RemoteFailureDoesNotBlock ==
    (/\ Exited
     /\ run.validation = "invalid"
     /\ ~Falsy(Trim(run.apiKey))
     /\ GetInstalledPlatforms(run.found) # <<>>
     /\ InvalidPlatforms(GetInstalledPlatforms(run.found), run.platforms) = <<>>) =>
        run.invoked = Known(PlatformsToConfig(GetInstalledPlatforms(run.found), run.platforms))

\* C21: configure has been called for at most one platform more than have
\* their record, that platform is the one the loop is waiting for, and
\* every platform called before it has its record: no two configure calls
\* are ever in progress together.
C21_OnePlatformAtATime ==
    run.setup =>
        /\ Len(run.invoked) - Len(run.results) \in {0, 1}
        /\ \A n \in 1..Len(run.results) : run.results[n].platform = run.invoked[n]
        /\ Len(run.invoked) > Len(run.results) =>
              /\ run.pending # NoPending
              /\ run.invoked[Len(run.invoked)] = run.targets[run.i]
        /\ run.pc = "loop" => Len(run.invoked) = Len(run.results)

\* configure of a second platform is in progress, the first has its record.
C21_Witness ==
    /\ run.setup
    /\ run.pc = "awaiting"
    /\ Len(run.results) >= 1
    /\ Len(run.invoked) = Len(run.results) + 1

\* C22: the value a successful configure returns has a truthy `updated`
\* exactly when the file it worked on held the entry before.
C22_UpdatedIffEntryWasPresent ==
    ConfiguredOk =>
        (Truthy(last.cfg.updated) <=> HasEntry(before.fs[last.path]))

\* The file held a server other than spectator-voice-memory.
HadOtherServers(file) ==
    /\ file.kind = "json"
    /\ file.doc.hasServers
    /\ Names(file.doc.servers) \ {SpectatorName} # {}

\* C23: the value a successful configure returns has a truthy
\* `hasOtherServers` exactly when the mcpServers of the file it worked on
\* had a key other than spectator-voice-memory before.
C23_OtherServersReported ==
    ConfiguredOk =>
        (Truthy(last.cfg.hasOtherServers) <=> HadOtherServers(before.fs[last.path]))

\* validate() of a multi-scope platform ran with both scope files there.
BothScopesChecked ==
    /\ last.op = "validate"
    /\ plat \in MultiScope
    /\ Exists(fs[GetConfigPath(plat, "global", os)])
    /\ Exists(fs[GetConfigPath(plat, "project", os)])

\* validate() has a result for the scope of this file: the entry is there
\* (valid) or the file cannot be read as JSON (invalid).  A document without
\* the entry gives no result for its scope.
GivesResult(file) == Exists(file) /\ (file.kind # "json" \/ HasEntry(file))

\* C24 as stated: with both scope files there and the same verdict for
\* both (the entry is in both, or in neither), validate() returns the
\* result of the global scope.
C24_GlobalWinsTies ==
    (/\ BothScopesChecked
     /\ HasEntry(fs[GetConfigPath(plat, "global", os)])
            <=> HasEntry(fs[GetConfigPath(plat, "project", os)])) =>
        last.val.scope = "global"

\* C24 amended: when both scopes give a result and the two are both valid
\* or both invalid, validate() returns the result of the global scope.
C24_GlobalWinsTiesOfResults ==
    (/\ BothScopesChecked
     /\ GivesResult(fs[GetConfigPath(plat, "global", os)])
     /\ GivesResult(fs[GetConfigPath(plat, "project", os)])
     /\ HasEntry(fs[GetConfigPath(plat, "global", os)])
            <=> HasEntry(fs[GetConfigPath(plat, "project", os)])) =>
        /\ ~last.threw
        /\ last.val.scope = "global"
        /\ last.val.valid = HasEntry(fs[GetConfigPath(plat, "global", os)])

\* Both scope files are malformed and validate() has returned the global
\* scope's error.
C24_Witness ==
    /\ BothScopesChecked
    /\ fs[GetConfigPath(plat, "global", os)].kind = "malformed"
    /\ fs[GetConfigPath(plat, "project", os)].kind = "malformed"
    /\ last.val.scope = "global"
    /\ ~last.val.valid

\* C25: getConfigPath gives null for an id that is not in its table; for
\* claude, claudecode, cline and windsurf, which have no project path, it
\* gives the same path whatever the scope: the platform's one path (for
\* this OS, where the table goes by OS).
C25_ResolverFallsBackToGlobal ==
    last.op = "getConfigPath" =>
        /\ plat \notin Elems(DetectOrder) => last.path = NullPath
        /\ plat = "windsurf" => last.path = WindsurfPaths.global
        /\ plat = "claude" => last.path = PathOrNull(ClaudePaths, os)
        /\ plat = "claudecode" => last.path = PathOrNull(ClaudeCodePaths, os)
        /\ plat = "cline" => last.path = PathOrNull(ClinePaths, os)

\* windsurf was asked for its project path and the global one came back.
C25_Witness ==
    /\ last.op = "getConfigPath"
    /\ plat = "windsurf"
    /\ last.scope = "project"
    /\ last.path = "~/.codeium/windsurf/mcp_config.json"

\* The file holds the entry in one of the two forms the tool has written:
\* the key in the URL, or the bearer header with the key in env.
StoredInForm(file, form) ==
    /\ HasEntry(file)
    /\ \E k \in ApiKeys :
          ValueOf(file.doc.servers, SpectatorName)
              = (IF form = "url" THEN CanonicalEntry(k) ELSE BearerEntry(k))

\* The same file with the entry in the other of the two forms.
OtherForm(file) ==
    LET e == ValueOf(file.doc.servers, SpectatorName)
        k == CHOOSE k \in ApiKeys : e \in {CanonicalEntry(k), BearerEntry(k)}
    IN  IF StoredInForm(file, "url")
        THEN [file EXCEPT !.doc.servers = SetKey(@, SpectatorName, BearerEntry(k))]
        ELSE IF StoredInForm(file, "bearer")
        THEN [file EXCEPT !.doc.servers = SetKey(@, SpectatorName, CanonicalEntry(k))]
        ELSE file
FormsSwapped(w) == [w EXCEPT !.fs = [p \in Paths |-> OtherForm(w.fs[p])]]

\* C26: validate() reports valid when a config file of the adapter holds
\* the entry in the URL form and when it holds it in the bearer form; after
\* a remove() that returned no config file of the adapter holds the entry,
\* whichever form it had; and the validate() or remove() that ran gave the
\* verdict, and left the entry in the files, that it would have with the
\* entry stored in the other form.
C26_BothEntryFormsRead ==
    /\ (/\ last.op = "validate"
        /\ \E path \in PathsOf(plat, os), form \in {"url", "bearer"} :
              StoredInForm(fs[path], form)) =>
          (~last.threw /\ last.val.valid)
    /\ (Removed /\ ~last.threw) =>
          \A path \in PathsOf(plat, os) : ~HasEntry(fs[path])
    /\ last.op = "validate" =>
          LET v == ValidateOf(plat, FormsSwapped(before), os)
          IN  v.threw = last.threw /\ v.val.valid = last.val.valid
    /\ Removed =>
          LET r == RemoveOf(plat, FormsSwapped(before), os)
          IN  /\ r.threw = last.threw
              /\ r.rem = last.rem
              /\ \A path \in Paths : HasEntry(r.w.fs[path]) = HasEntry(fs[path])

\* validate() found valid a file with the entry in the bearer form.
C26_Witness ==
    /\ last.op = "validate"
    /\ \E path \in PathsOf(plat, os) : StoredInForm(fs[path], "bearer")
    /\ last.val.valid

\* remove() has taken a bearer-form entry out.
C26_RemoveWitness ==
    /\ Removed
    /\ ~last.threw
    /\ \E path \in PathsOf(plat, os) :
          StoredInForm(before.fs[path], "bearer") /\ ~HasEntry(fs[path])

\* C27: in the calls configure makes, every copy of the backup comes
\* before every write of the config file, and when the copy fails
\* configure throws without a write: the config files are as they were.
C27_BackupBeforeWrite ==
    Configured =>
        /\ \A i, j \in 1..Len(last.calls) :
              (last.calls[i].call \in {"copy", "copy failed"} /\ last.calls[j].call = "write")
                  => i < j
        /\ Made("copy failed") =>
              (last.threw /\ ~Made("write") /\ fs = before.fs /\ backups = before.backups)

\* The copy of an existing file that holds the entry failed, and configure
\* threw.
C27_Witness ==
    /\ Configured
    /\ Made("copy failed")
    /\ HasEntry(before.fs[last.path])
    /\ last.threw
    /\ last.error = CopyError
    /\ fs = before.fs

\* C28: a validate() that comes right after a configure that returned
\* gives valid = true, and one that comes right after a remove() that
\* returned gives valid = false.
C28_ValidateFollowsConfigureAndRemove ==
    last.op = "validate" =>
        /\ (prior.op = "configure" /\ ~prior.threw) => (~last.threw /\ last.val.valid)
        /\ (prior.op = "remove" /\ ~prior.threw) => (~last.threw /\ ~last.val.valid)

\* validate() after a remove() that returned and left a document behind.
C28_Witness ==
    /\ last.op = "validate"
    /\ prior.op = "remove"
    /\ ~prior.threw
    /\ \E path \in PathsOf(plat, os) : fs[path].kind = "json" /\ fs[path].fmt = "pretty2"
    /\ ~last.val.valid

\* validate() after a configure that returned.
C28_ConfigureWitness ==
    /\ last.op = "validate"
    /\ prior.op = "configure"
    /\ ~prior.threw
    /\ last.val.valid

\* C30: configure of cursor or vscode with scope global or project makes
\* its fs calls on the file of that scope only: every other file, its
\* directory and its backups are as they were.
C30_OnlyTheScopeFileTouched ==
    (Configured /\ plat \in MultiScope /\ last.scope \in {"global", "project"}) =>
        /\ last.path = GetConfigPath(plat, last.scope, os)
        /\ \A i \in 1..Len(last.calls) : last.calls[i].path = last.path
        /\ \A path \in Paths \ {last.path} :
              /\ fs[path] = before.fs[path]
              /\ (path \in dirs) = (path \in before.dirs)
              /\ {b \in backups : b.path = path} = {b \in before.backups : b.path = path}

\* configure wrote the project file next to a global file that holds the
\* entry; the global file is as it was.
C30_Witness ==
    /\ ConfiguredOk
    /\ plat \in MultiScope
    /\ last.scope = "project"
    /\ Made("write")
    /\ HasEntry(fs[GetConfigPath(plat, "global", os)])
    /\ fs[GetConfigPath(plat, "global", os)].fmt = "custom"
    /\ fs[last.path].fmt = "pretty2"

\* C29: once the prompt of the remove command has been answered no,
\* remove() is called for no platform and every file, directory and backup
\* stays as it was when the process started.
C29_UnconfirmedRemoveDoesNothing ==
    run.confirm = "no" => (run.invoked = <<>> /\ FilesUntouched)

\* The process has ended after a no, on a machine where a detected
\* platform's file holds the entry.
C29_Witness ==
    /\ run.confirm = "no"
    /\ Exited
    /\ run.invoked = <<>>
    /\ \E name \in run.found : HasEntry(fs[SetupPath(name)])

====
